---- MODULE Spec2Model ----
(***************************************************************************)
(* Account creation (POST /api/auth/create-account), password change      *)
(* (PUT /api/auth/change-password) and the client form controller         *)
(* (ChangePasswordPage) of the Qa-Moniter-app authentication flow.        *)
(*                                                                         *)
(* A JavaScript string is a sequence of one-character strings; a field    *)
(* that is absent from a JSON body is the value Undefined.                *)
(***************************************************************************)
EXTENDS Integers, Sequences, FiniteSets, TLC

\* ------------------------------------------------------------------ bounds
MaxUsers == 2   \* capacity of the credential store in the model
MaxProcs == 2   \* concurrent handler invocations in SpecConc

\* ------------------------------------------------------- program constants
MinPasswordLength == 6

\* ------------------------------------------------------------ JS values
Undefined == <<"undefined">>

\* !x of JavaScript, for x a string or undefined
Falsy(x) == x = Undefined \/ x = <<>>

LowerChar(c) ==
  CASE c = "A" -> "a"
    [] c = "B" -> "b"
    [] c = "N" -> "n"
    [] OTHER   -> c

\* String.prototype.toLowerCase
ToLowerCase(s) == [i \in DOMAIN s |-> LowerChar(s[i])]

RECURSIVE TrimStart(_)
TrimStart(s) ==
  IF s # <<>> /\ Head(s) = " " THEN TrimStart(Tail(s)) ELSE s

RECURSIVE TrimEnd(_)
TrimEnd(s) ==
  IF s # <<>> /\ s[Len(s)] = " " THEN TrimEnd(SubSeq(s, 1, Len(s) - 1)) ELSE s

\* String.prototype.trim
Trim(s) == TrimEnd(TrimStart(s))

\* ------------------------------------------------------------ input sets
Tester == <<"t", "e", "s", "t", "e", "r">>
Admin  == <<"a", "d", "m", "i", "n">>

Short   == <<"a", "b", "c", "1", "2">>
Secret1 == <<"s", "e", "c", "r", "e", "t", "1">>
Secret2 == <<"s", "e", "c", "r", "e", "t", "2">>

Names     == {<<" ", "n">>}
Emails    == {<<"A">>, <<" ", "a">>, <<"b">>}
Passwords == {Short, Secret1, Secret2}
Roles     == {Undefined, Admin}

\* what a required field holds when the client left it out or empty
Missing == {Undefined, <<>>}

\* bodies with every required field filled in
FullBodies ==
  [name : Names, email : Emails, oldPassword : Passwords,
   newPassword : Passwords, role : Roles]

\* a filled-in body with one required field left out or empty
MissingBodies ==
  { [b EXCEPT ![f] = v] :
      f \in {"name", "email", "oldPassword", "newPassword"},
      v \in Missing,
      b \in {x \in FullBodies : x.email = <<"A">> /\ x.oldPassword = Secret1
                                  /\ x.role = Undefined} }

CreateBodies == FullBodies \cup MissingBodies

ChangeBodies ==
  [oldPassword : Passwords, newPassword : Passwords]
    \cup [oldPassword : Missing, newPassword : {Secret1}]
    \cup [oldPassword : {Secret1}, newPassword : Missing]

\* caller identities carried by a request: 0 is "no valid credential",
\* MaxUsers + 1 is a verified identity whose record does not exist
NoIdentity == 0
Identities == 0 .. (MaxUsers + 1)

\* -------------------------------------------------------------- responses
\* A message is the sequence of its words.
Failure(st, msg) == [success |-> FALSE, status |-> st, error |-> msg]
Success200       == [success |-> TRUE, status |-> 200, error |-> <<>>]
Pending          == [success |-> FALSE, status |-> 0, error |-> <<>>]

MsgAllRequired   == <<"All", "fields", "are", "required">>
MsgBothRequired  == <<"Old", "password", "and", "new", "password", "are", "required">>
MsgMinLength     == <<"New", "password", "must", "be", "at", "least", "6", "characters", "long">>
MsgDifferentOld  == <<"New", "password", "must", "be", "different", "from", "the", "old", "password">>
MsgExists        == <<"User", "with", "this", "email", "already", "exists">>
MsgCreateFailed  == <<"Failed", "to", "create", "account">>
MsgUnauthorized  == <<"Unauthorized">>
MsgNotFound      == <<"User", "not", "found">>
MsgDeactivated   == <<"Account", "is", "deactivated">>
MsgIncorrect     == <<"Current", "password", "is", "incorrect">>
MsgSamePassword  == <<"New", "password", "must", "be", "different", "from", "current", "password">>
MsgChangeFailed  == <<"Failed", "to", "change", "password">>

\* --------------------------------------------------------- credential store
\* The store is the sequence of persisted documents; _id of a document is
\* its index.  The write hook stores a one-way hash of the password.
Hash(p) == <<"hash">> \o p

\* user.comparePassword(candidate)
ComparePassword(doc, candidate) == Hash(candidate) = doc.password

\* User.findOne({ email: q })
FindOne(store, q) ==
  IF \E i \in DOMAIN store : store[i].email = q
  THEN CHOOSE i \in DOMAIN store :
         store[i].email = q /\ \A j \in DOMAIN store : store[j].email = q => i <= j
  ELSE 0

\* User.findById(id)
FindById(store, id) == IF id \in DOMAIN store THEN id ELSE 0

\* unique index on email: does inserting doc raise E11000 ?
DuplicateKey(store, doc) == \E i \in DOMAIN store : store[i].email = doc.email

\* insert of a new document by user.save(): hash hook, isActive default
InsertDoc(store, doc) ==
  Append(store, [name |-> doc.name, email |-> doc.email,
                 password |-> Hash(doc.password), role |-> doc.role,
                 isActive |-> TRUE])

\* user.save() of a loaded document whose password path was modified
UpdatePassword(store, id, p) ==
  [store EXCEPT ![id] = [@ EXCEPT !.password = Hash(p)]]

\* ------------------------------------------------- POST create-account
\* CreateValidation without the oldPassword === newPassword return
CreateValidation_NoDifferenceCheck(body) ==
  IF Falsy(body.name) \/ Falsy(body.email)
       \/ Falsy(body.oldPassword) \/ Falsy(body.newPassword)
  THEN Failure(400, MsgAllRequired)
  ELSE IF Len(body.newPassword) < MinPasswordLength
  THEN Failure(400, MsgMinLength)
  ELSE Pending

\* the three validation returns; Pending when the request passes
CreateValidation(body) ==
  IF Falsy(body.name) \/ Falsy(body.email)
       \/ Falsy(body.oldPassword) \/ Falsy(body.newPassword)
  THEN Failure(400, MsgAllRequired)
  ELSE IF Len(body.newPassword) < MinPasswordLength
  THEN Failure(400, MsgMinLength)
  ELSE IF body.oldPassword = body.newPassword
  THEN Failure(400, MsgDifferentOld)
  ELSE Pending

\* the query of the existence pre-check
ExistingUserQuery(body) == ToLowerCase(body.email)

\* NewUser persisting oldPassword
NewUser_OldPassword(body) ==
  [name     |-> Trim(body.name),
   email    |-> Trim(ToLowerCase(body.email)),
   password |-> body.oldPassword,
   role     |-> IF body.role = Undefined THEN Tester ELSE body.role]

\* NewUser that does not lower-case the email
NewUser_KeepsCase(body) ==
  [name     |-> Trim(body.name),
   email    |-> Trim(body.email),
   password |-> body.newPassword,
   role     |-> IF body.role = Undefined THEN Tester ELSE body.role]

\* new User({...}) with the destructuring default of role
NewUser(body) ==
  [name     |-> Trim(body.name),
   email    |-> Trim(ToLowerCase(body.email)),
   password |-> body.newPassword,
   role     |-> IF body.role = Undefined THEN Tester ELSE body.role]

\* catch block without the duplicate-key case
CreateCatch_Always500(code) == Failure(500, MsgCreateFailed)

\* catch block: duplicate key (code 11000) or anything else
CreateCatch(code) ==
  IF code = 11000 THEN Failure(400, MsgExists)
  ELSE Failure(500, MsgCreateFailed)

\* response of the existence pre-check; Pending when no record was found
CreatePreCheck(store, body) ==
  IF FindOne(store, ExistingUserQuery(body)) # 0
  THEN Failure(400, MsgExists)
  ELSE Pending

\* await user.save() and the response that follows it
CreateSave(store, body) ==
  IF DuplicateKey(store, NewUser(body))
  THEN [store |-> store, resp |-> CreateCatch(11000)]
  ELSE [store |-> InsertDoc(store, NewUser(body)), resp |-> Success200]

\* the whole handler run without interleaving
CreateAccount(store, body) ==
  IF CreateValidation(body) # Pending
  THEN [store |-> store, resp |-> CreateValidation(body)]
  ELSE IF CreatePreCheck(store, body) # Pending
  THEN [store |-> store, resp |-> CreatePreCheck(store, body)]
  ELSE CreateSave(store, body)

\* ------------------------------------------------- PUT change-password
\* identity check and the two validation returns
ChangeValidation(identity, body) ==
  IF identity = NoIdentity
  THEN Failure(401, MsgUnauthorized)
  ELSE IF Falsy(body.oldPassword) \/ Falsy(body.newPassword)
  THEN Failure(400, MsgBothRequired)
  ELSE IF Len(body.newPassword) < MinPasswordLength
  THEN Failure(400, MsgMinLength)
  ELSE Pending

\* ChangeLookup without the isActive return
ChangeLookup_NoActiveCheck(store, identity) ==
  IF FindById(store, identity) = 0
  THEN Failure(404, MsgNotFound)
  ELSE Pending

\* returns after User.findById: not found, deactivated
ChangeLookup(store, identity) ==
  IF FindById(store, identity) = 0
  THEN Failure(404, MsgNotFound)
  ELSE IF ~store[FindById(store, identity)].isActive
  THEN Failure(401, MsgDeactivated)
  ELSE Pending

\* ChangeCompare without the same-password return
ChangeCompare_NoSameCheck(doc, body) ==
  IF ~ComparePassword(doc, body.oldPassword)
  THEN Failure(400, MsgIncorrect)
  ELSE Pending

\* ChangeCompare without the verification of oldPassword
ChangeCompare_NoOldCheck(doc, body) ==
  IF ComparePassword(doc, body.newPassword)
  THEN Failure(400, MsgSamePassword)
  ELSE Pending

\* the two comparePassword calls on the loaded document
ChangeCompare(doc, body) ==
  IF ~ComparePassword(doc, body.oldPassword)
  THEN Failure(400, MsgIncorrect)
  ELSE IF ComparePassword(doc, body.newPassword)
  THEN Failure(400, MsgSamePassword)
  ELSE Pending

\* ChangeSave that answers success without persisting
ChangeSave_NotPersisted(store, id, body) ==
  [store |-> store, resp |-> Success200]

\* ChangeSave that writes the new password to every record
ChangeSave_AllRecords(store, id, body) ==
  [store |-> [i \in DOMAIN store |->
                [store[i] EXCEPT !.password = Hash(body.newPassword)]],
   resp |-> Success200]

\* user.password = newPassword; await user.save(); success response
ChangeSave(store, id, body) ==
  [store |-> UpdatePassword(store, id, body.newPassword), resp |-> Success200]

\* the whole handler run without interleaving
ChangePassword(store, identity, body) ==
  IF ChangeValidation(identity, body) # Pending
  THEN [store |-> store, resp |-> ChangeValidation(identity, body)]
  ELSE IF ChangeLookup(store, identity) # Pending
  THEN [store |-> store, resp |-> ChangeLookup(store, identity)]
  ELSE IF ChangeCompare(store[identity], body) # Pending
  THEN [store |-> store, resp |-> ChangeCompare(store[identity], body)]
  ELSE ChangeSave(store, identity, body)

\* ------------------------------------------------------------------ state
VARIABLES
  users,   \* the credential store
  last,    \* the handler call completed last: request, response, store before it
  prev,    \* request of the call before `last`, kept when that call succeeded
  procs,   \* the handler invocations in flight: position, request, loaded document
  page,    \* React state of ChangePasswordPage
  env,     \* what surrounds the page: session storage, auth context, router, timers
  trace    \* the page's last event and what its last handleSubmit saw and did

clientVars == <<page, env, trace>>
vars == <<users, last, prev, procs, page, env, trace>>

Procs == 1 .. MaxProcs

NoBody ==
  [name |-> Undefined, email |-> Undefined, oldPassword |-> Undefined,
   newPassword |-> Undefined, role |-> Undefined]

NoCall == [op |-> "none", identity |-> NoIdentity, body |-> NoBody,
           resp |-> Pending, pre |-> <<>>]

NoPrev == [op |-> "none", identity |-> NoIdentity, body |-> NoBody]

\* a change-password body in the shape of a create-account body
AsBody(cb) == [NoBody EXCEPT !.oldPassword = cb.oldPassword,
                             !.newPassword = cb.newPassword]

\* stores the handlers may find: empty, or one account created earlier with
\* password Secret1, still active or deactivated since
SeedUser(active) ==
  [name |-> <<"n">>, email |-> <<"a">>, password |-> Hash(Secret1),
   role |-> Tester, isActive |-> active]

InitStores == {<<>>, <<SeedUser(TRUE)>>, <<SeedUser(FALSE)>>}

NoDoc == [name |-> <<>>, email |-> <<>>, password |-> <<>>, role |-> <<>>,
          isActive |-> FALSE]

\* an invocation that has not started; `passed` records that it got past the
\* existence pre-check, `replaced` the stored password its own write replaced
Idle ==
  [pc |-> "idle", op |-> "none", identity |-> NoIdentity, body |-> NoBody,
   doc |-> NoDoc, resp |-> Pending, passed |-> FALSE, replaced |-> <<>>]

\* ------------------------------------------------ client form controller
NoError == <<>>

MsgDefaultRequired  == <<"Default", "password", "is", "required">>
MsgCurrentRequired  == <<"Current", "password", "is", "required">>
MsgNewRequired      == <<"New", "password", "is", "required">>
MsgDifferentDefault ==
  <<"New", "password", "must", "be", "different", "from", "the", "default", "password">>
MsgDefaultIncorrect == <<"Default", "password", "is", "incorrect">>
MsgProcessFailed    == <<"Failed", "to", "process", "request">>

\* String.prototype.includes, on messages
Includes(msg, needle) ==
  \E i \in 1 .. (Len(msg) - Len(needle) + 1) :
    SubSeq(msg, i, i + Len(needle) - 1) = needle

\* sessionStorage.getItem('registrationData'): the staged payload or nothing
NoStaged == [name |-> Undefined, email |-> Undefined, password |-> Undefined,
             role |-> Undefined]
Staged   == [name |-> <<"n">>, email |-> <<"A">>, password |-> Secret1,
             role |-> Tester]

NoErrors == [oldPassword |-> NoError, newPassword |-> NoError, general |-> NoError]

EmptyForm == [oldPassword |-> <<>>, newPassword |-> <<>>]

\* useState initial values
InitialPage ==
  [loading |-> FALSE, isRegistrationFlow |-> FALSE, registrationData |-> NoStaged,
   formData |-> EmptyForm, fieldErrors |-> NoErrors, success |-> FALSE]

NoSubmit == [formData |-> EmptyForm, registration |-> FALSE,
             staged |-> Undefined, sent |-> "none"]

InitialEnv(stored, auth) ==
  [sessionStorage |-> stored, isAuthenticated |-> auth, route |-> "change-password",
   mounted |-> FALSE, pending |-> "none", timers |-> {}]

InitialTrace == [event |-> "none", submit |-> NoSubmit]

Init ==
  /\ users \in InitStores
  /\ last = NoCall
  /\ prev = NoPrev
  /\ procs = [p \in Procs |-> Idle]
  /\ page = InitialPage
  /\ env = InitialEnv(NoStaged, FALSE)
  /\ trace = InitialTrace

\* what the next call sees as the call before it
Shift ==
  prev' = IF last.resp.success
          THEN [op |-> last.op, identity |-> last.identity, body |-> last.body]
          ELSE NoPrev

\* one POST /api/auth/create-account call
POST ==
  \E body \in CreateBodies :
    LET r == CreateAccount(users, body) IN
      /\ Len(r.store) <= MaxUsers
      /\ users' = r.store
      /\ last' = [op |-> "create", identity |-> NoIdentity, body |-> body,
                  resp |-> r.resp, pre |-> users]
      /\ Shift
      /\ UNCHANGED <<procs, clientVars>>

\* one PUT /api/auth/change-password call
PUT ==
  \E identity \in Identities, cb \in ChangeBodies :
    LET r == ChangePassword(users, identity, AsBody(cb)) IN
      /\ users' = r.store
      /\ last' = [op |-> "change", identity |-> identity, body |-> AsBody(cb),
                  resp |-> r.resp, pre |-> users]
      /\ Shift
      /\ UNCHANGED <<procs, clientVars>>

Next == POST \/ PUT

Spec == Init /\ [][Next]_vars

\* ------------------------------------------- interleaved handler invocations
\* Each await on the store is one step; what lies between two awaits runs
\* without interruption.

\* requests of the interleaved invocations
ConcCreateBodies ==
  {b \in CreateBodies :
     /\ b.role = Undefined /\ b.oldPassword = Secret1
     /\ b.newPassword = Secret2 /\ ~Falsy(b.name)}

ConcChangeBodies ==
  {b \in ChangeBodies :
     /\ b.oldPassword \in {Secret1, Secret2} /\ b.newPassword \in {Secret1, Secret2}
     /\ b.oldPassword # b.newPassword}

\* callers of the interleaved password changes: the first two records
ConcIdentities == {1, 2}

\* the invocation returns resp; its loaded document goes out of scope
Done(pr, resp) == [pr EXCEPT !.pc = "done", !.resp = resp, !.doc = NoDoc]

\* POST up to and including await User.findOne
CreateBegin(p) ==
  \E body \in ConcCreateBodies :
    LET pr == [Idle EXCEPT !.op = "create", !.body = body] IN
      /\ procs[p].pc = "idle"
      /\ procs' = [procs EXCEPT ![p] =
           IF CreateValidation(body) # Pending
           THEN Done(pr, CreateValidation(body))
           ELSE IF CreatePreCheck(users, body) # Pending
           THEN Done(pr, CreatePreCheck(users, body))
           ELSE [pr EXCEPT !.pc = "createSave", !.passed = TRUE]]
      /\ UNCHANGED <<users, last, prev, clientVars>>

\* POST from await user.save() to the response
CreateSaveStep(p) ==
  LET r == CreateSave(users, procs[p].body) IN
    /\ procs[p].pc = "createSave"
    /\ Len(r.store) <= MaxUsers
    /\ users' = r.store
    /\ procs' = [procs EXCEPT ![p] = Done(@, r.resp)]
    /\ UNCHANGED <<last, prev, clientVars>>

\* PUT up to and including await User.findById and the active check
ChangeBegin(p) ==
  \E identity \in ConcIdentities, cb \in ConcChangeBodies :
    LET body == AsBody(cb)
        pr   == [Idle EXCEPT !.op = "change", !.identity = identity, !.body = body]
    IN
      /\ procs[p].pc = "idle"
      /\ procs' = [procs EXCEPT ![p] =
           IF ChangeValidation(identity, body) # Pending
           THEN Done(pr, ChangeValidation(identity, body))
           ELSE IF ChangeLookup(users, identity) # Pending
           THEN Done(pr, ChangeLookup(users, identity))
           ELSE [pr EXCEPT !.pc = "compare", !.doc = users[identity]]]
      /\ UNCHANGED <<users, last, prev, clientVars>>

\* PUT: the two awaited comparePassword calls on the loaded document
ChangeCompareStep(p) ==
  /\ procs[p].pc = "compare"
  /\ procs' = [procs EXCEPT ![p] =
       IF ChangeCompare(@.doc, @.body) # Pending
       THEN Done(@, ChangeCompare(@.doc, @.body))
       ELSE [@ EXCEPT !.pc = "changeSave"]]
  /\ UNCHANGED <<users, last, prev, clientVars>>

\* PUT from await user.save() to the response
ChangeSaveStep(p) ==
  LET r == ChangeSave(users, procs[p].identity, procs[p].body) IN
    /\ procs[p].pc = "changeSave"
    /\ users' = r.store
    /\ procs' = [procs EXCEPT ![p] =
         Done([@ EXCEPT !.replaced = users[procs[p].identity].password], r.resp)]
    /\ UNCHANGED <<last, prev, clientVars>>

\* the response is delivered and the slot serves the next request
Finish(p) ==
  /\ procs[p].pc = "done"
  /\ procs' = [procs EXCEPT ![p] = Idle]
  /\ UNCHANGED <<users, last, prev, clientVars>>

NextConc ==
  \E p \in Procs :
    \/ CreateBegin(p)
    \/ CreateSaveStep(p)
    \/ ChangeBegin(p)
    \/ ChangeCompareStep(p)
    \/ ChangeSaveStep(p)
    \/ Finish(p)

SpecConc == Init /\ [][NextConc]_vars

\* ---------------------------------------------------- ChangePasswordPage
FormValues == {<<>>, Short, Secret1, Secret2}

isValidPassword(password) == Len(password) >= MinPasswordLength

\* validateField without the comparison to formData.oldPassword
validateField_NoDifferenceCheck(pg, fieldName, value) ==
  CASE fieldName = "oldPassword" ->
         IF value = <<>>
         THEN (IF pg.isRegistrationFlow THEN MsgDefaultRequired ELSE MsgCurrentRequired)
         ELSE NoError
    [] fieldName = "newPassword" ->
         IF value = <<>> THEN MsgNewRequired
         ELSE IF ~isValidPassword(value) THEN MsgMinLength
         ELSE NoError
    [] OTHER -> NoError

\* validateField, reading formData and isRegistrationFlow of the page state pg
validateField(pg, fieldName, value) ==
  CASE fieldName = "oldPassword" ->
         IF value = <<>>
         THEN (IF pg.isRegistrationFlow THEN MsgDefaultRequired ELSE MsgCurrentRequired)
         ELSE NoError
    [] fieldName = "newPassword" ->
         IF value = <<>> THEN MsgNewRequired
         ELSE IF ~isValidPassword(value) THEN MsgMinLength
         ELSE IF value = pg.formData.oldPassword THEN MsgDifferentDefault
         ELSE NoError
    [] OTHER -> NoError

\* the errors object validateAllFields builds
validateAllFields(pg) ==
  [oldPassword |-> validateField(pg, "oldPassword", pg.formData.oldPassword),
   newPassword |-> validateField(pg, "newPassword", pg.formData.newPassword),
   general     |-> NoError]

\* catch block of handleSubmit: which field the server's message goes to
ErrorRouting(msg) ==
  LET errorMessage == IF msg = <<>> THEN MsgProcessFailed ELSE msg IN
    IF Includes(errorMessage, MsgIncorrect) \/ Includes(errorMessage, <<"password">>)
    THEN [NoErrors EXCEPT !.oldPassword = errorMessage]
    ELSE [NoErrors EXCEPT !.general = errorMessage]

\* the form is on screen: mounted, not navigated away, and rendered
Rendered ==
  /\ env.mounted /\ env.route = "change-password"
  /\ (page.isRegistrationFlow \/ env.isAuthenticated)

\* useEffect after the first render
Mount ==
  /\ ~env.mounted
  /\ IF env.sessionStorage # NoStaged
     THEN /\ page' = [page EXCEPT !.isRegistrationFlow = TRUE,
                                  !.registrationData = env.sessionStorage]
          /\ env' = [env EXCEPT !.mounted = TRUE]
     ELSE /\ page' = page
          /\ env' = [env EXCEPT !.mounted = TRUE,
                                !.route = IF env.isAuthenticated THEN @ ELSE "login"]
  /\ trace' = [trace EXCEPT !.event = "mount"]
  /\ UNCHANGED <<users, last, prev, procs>>

\* handleInputChange
Type ==
  \E name \in {"oldPassword", "newPassword"}, value \in FormValues :
    /\ Rendered
    /\ page' = [page EXCEPT !.formData[name] = value,
                            !.fieldErrors[name] = NoError,
                            !.fieldErrors.general = NoError,
                            !.success = FALSE]
    /\ trace' = [trace EXCEPT !.event = "type"]
    /\ UNCHANGED <<users, last, prev, procs, env>>

\* handleFieldBlur, as the inputs call it
Blur ==
  \E fieldName \in {"oldPassword", "newPassword"} :
    /\ Rendered
    /\ page' = [page EXCEPT !.fieldErrors[fieldName] =
                              validateField(page, fieldName, page.formData[fieldName])]
    /\ trace' = [trace EXCEPT !.event = "blur"]
    /\ UNCHANGED <<users, last, prev, procs, env>>

\* what handleSubmit does with page state pg up to its first await or return:
\* the next page state and the request it issues
SubmitOutcome(pg) ==
  IF validateAllFields(pg) # NoErrors
  THEN [page |-> [pg EXCEPT !.fieldErrors = validateAllFields(pg)], sent |-> "none"]
  ELSE IF pg.isRegistrationFlow /\ pg.registrationData # NoStaged
  THEN IF pg.formData.oldPassword # pg.registrationData.password
       THEN [page |-> [pg EXCEPT !.loading = FALSE,
                                 !.fieldErrors =
                                   [NoErrors EXCEPT !.oldPassword = MsgDefaultIncorrect]],
             sent |-> "none"]
       ELSE [page |-> [pg EXCEPT !.loading = TRUE, !.fieldErrors = NoErrors],
             sent |-> "register"]
  ELSE [page |-> [pg EXCEPT !.loading = TRUE, !.fieldErrors = NoErrors],
        sent |-> "put"]

\* handleSubmit, from the form's onSubmit; the submit button is disabled
\* while loading or success
Submit ==
  LET o == SubmitOutcome(page) IN
    /\ Rendered
    /\ ~page.loading /\ ~page.success
    /\ page' = o.page
    /\ env' = [env EXCEPT !.pending = o.sent]
    /\ trace' = [event |-> "submit",
                 submit |-> [formData |-> page.formData,
                             registration |-> page.isRegistrationFlow,
                             staged |-> page.registrationData.password,
                             sent |-> o.sent]]
    /\ UNCHANGED <<users, last, prev, procs>>

\* error bodies a rejected call can carry; <<>> is a failure without a response
RegisterErrors ==
  {<<>>, MsgAllRequired, MsgMinLength, MsgDifferentOld, MsgExists, MsgCreateFailed}

PutErrors ==
  {<<>>, MsgUnauthorized, MsgBothRequired, MsgMinLength, MsgNotFound,
   MsgDeactivated, MsgIncorrect, MsgSamePassword, MsgChangeFailed}

\* handleSubmit after await register(...) resolved
RegisterResolves ==
  /\ env.pending = "register"
  /\ page' = [page EXCEPT !.success = TRUE, !.loading = FALSE]
  /\ env' = [env EXCEPT !.pending = "none", !.sessionStorage = NoStaged,
                        !.timers = @ \cup {"created"}]
  /\ trace' = [trace EXCEPT !.event = "registered"]
  /\ UNCHANGED <<users, last, prev, procs>>

\* the catch path of a registration that also removes the staged data
RegisterRejects_ClearsStaged ==
  \E msg \in RegisterErrors :
    /\ env.pending = "register"
    /\ page' = [page EXCEPT !.fieldErrors = ErrorRouting(msg), !.loading = FALSE]
    /\ env' = [env EXCEPT !.pending = "none", !.sessionStorage = NoStaged]
    /\ trace' = [trace EXCEPT !.event = "rejected"]
    /\ UNCHANGED <<users, last, prev, procs>>

\* handleSubmit after await register(...) threw
RegisterRejects ==
  \E msg \in RegisterErrors :
    /\ env.pending = "register"
    /\ page' = [page EXCEPT !.fieldErrors = ErrorRouting(msg), !.loading = FALSE]
    /\ env' = [env EXCEPT !.pending = "none"]
    /\ trace' = [trace EXCEPT !.event = "rejected"]
    /\ UNCHANGED <<users, last, prev, procs>>

\* handleSubmit after await axios.put(...) resolved with success: true
PutResolves ==
  /\ env.pending = "put"
  /\ page' = [page EXCEPT !.success = TRUE, !.formData = EmptyForm,
                          !.loading = FALSE]
  /\ env' = [env EXCEPT !.pending = "none", !.timers = @ \cup {"changed"}]
  /\ trace' = [trace EXCEPT !.event = "changed"]
  /\ UNCHANGED <<users, last, prev, procs>>

\* handleSubmit after await axios.put(...) threw
PutRejects ==
  \E msg \in PutErrors :
    /\ env.pending = "put"
    /\ page' = [page EXCEPT !.fieldErrors = ErrorRouting(msg), !.loading = FALSE]
    /\ env' = [env EXCEPT !.pending = "none"]
    /\ trace' = [trace EXCEPT !.event = "rejected"]
    /\ UNCHANGED <<users, last, prev, procs>>

\* a setTimeout callback of handleSubmit runs
TimerFires ==
  \E t \in env.timers :
    /\ env' = [env EXCEPT !.timers = @ \ {t}, !.route = "login",
                          !.isAuthenticated = IF t = "changed" THEN FALSE ELSE @]
    /\ trace' = [trace EXCEPT !.event = "redirect"]
    /\ UNCHANGED <<users, last, prev, procs, page>>

InitClient ==
  /\ users = <<>>
  /\ last = NoCall
  /\ prev = NoPrev
  /\ procs = [p \in Procs |-> Idle]
  /\ page = InitialPage
  /\ \E stored \in {NoStaged, Staged}, auth \in BOOLEAN :
       env = InitialEnv(stored, auth)
  /\ trace = InitialTrace

NextClient ==
  \/ Mount
  \/ Type
  \/ Blur
  \/ Submit
  \/ RegisterResolves
  \/ RegisterRejects
  \/ PutResolves
  \/ PutRejects
  \/ TimerFires

SpecClient == InitClient /\ [][NextClient]_vars

\* a callback handed to setTimeout runs once its delay has passed
SpecClientFair == SpecClient /\ WF_vars(TimerFires)

\* ------------------------------------------------- vocabulary of the claims
Normalized(e) == Trim(ToLowerCase(e))

EmailsOf(store) == {store[i].email : i \in DOMAIN store}

IsCreate == last.op = "create"
IsChange == last.op = "change"

\* the create request passes the three input checks
ValidCreate(body) ==
  /\ ~Falsy(body.name) /\ ~Falsy(body.email)
  /\ ~Falsy(body.oldPassword) /\ ~Falsy(body.newPassword)
  /\ Len(body.newPassword) >= 6
  /\ body.oldPassword # body.newPassword

\* the store gained exactly one record and kept all the others as they were
GainedOne == Len(users) = Len(last.pre) + 1 /\ SubSeq(users, 1, Len(last.pre)) = last.pre

\* the record the call added is the one the request asks for
CreatedAsAsked ==
  LET rec == users[Len(users)] IN
    /\ ComparePassword(rec, last.body.newPassword)
    /\ ~ComparePassword(rec, last.body.oldPassword)
    /\ rec.email = Normalized(last.body.email)
    /\ (last.body.role = Undefined => rec.role = Tester)

\* C1 as stated: every valid creation whose lower-cased email is not in the
\* store succeeds and adds exactly the record asked for.
C1_AsStated ==
  (IsCreate /\ ValidCreate(last.body)
     /\ ToLowerCase(last.body.email) \notin EmailsOf(last.pre))
  => (last.resp.success /\ GainedOne /\ CreatedAsAsked)

\* C1 amended: every valid creation whose lower-cased and trimmed email is not
\* in the store succeeds, and the store gains exactly one record, with password
\* newPassword (not oldPassword), the normalized email and role tester by
\* default; every other record is as before.
C1_CreateAddsOneRecord ==
  (IsCreate /\ ValidCreate(last.body)
     /\ Normalized(last.body.email) \notin EmailsOf(last.pre))
  => (last.resp.success /\ GainedOne /\ CreatedAsAsked)

C1_Witness ==
  /\ IsCreate /\ last.resp.success
  /\ last.pre # <<>>
  /\ last.body.role = Undefined
  /\ last.body.email # Normalized(last.body.email)

\* the email of the request is in the store, compared case-insensitively
PresentIgnoringCase(body, store) ==
  \E i \in DOMAIN store : ToLowerCase(store[i].email) = ToLowerCase(body.email)

\* the call repeats the successful creation that came right before it
RepeatsCreate == IsCreate /\ prev.op = "create" /\ prev.body = last.body

Conflict == Failure(400, MsgExists)

\* C2 as stated: every creation request whose email is already present is
\* answered with the conflict error and creates nothing.
C2_AsStated ==
  (IsCreate /\ PresentIgnoringCase(last.body, last.pre))
  => (users = last.pre /\ last.resp = Conflict)

\* C2 amended: a creation request that passes the input checks and whose email
\* is already present (ignoring case) creates nothing and gets 400 'User with
\* this email already exists'; so does a repeat of the creation that just
\* succeeded, which leaves the record of the first call alone.
C2_DuplicateEmailConflict ==
  /\ (IsCreate /\ ValidCreate(last.body) /\ PresentIgnoringCase(last.body, last.pre))
       => (users = last.pre /\ last.resp = Conflict)
  /\ RepeatsCreate
       => (users = last.pre /\ last.resp = Conflict
           /\ Cardinality({i \in DOMAIN users :
                             users[i].email = Normalized(last.body.email)}) = 1)

C2_Witness ==
  /\ RepeatsCreate
  /\ last.body.email = <<"A">>
  /\ PresentIgnoringCase(last.body, last.pre)

\* the three validation answers of create-account
CreateValidationErrors ==
  {Failure(400, MsgAllRequired), Failure(400, MsgMinLength), Failure(400, MsgDifferentOld)}

\* C3: a creation request with a missing field, a newPassword shorter than 6
\* or oldPassword = newPassword gets a validation error (400) and the store
\* is left as it was.
C3_InvalidCreateRejected ==
  (IsCreate /\ ~ValidCreate(last.body))
  => (last.resp \in CreateValidationErrors /\ users = last.pre)

C3_Witness ==
  /\ IsCreate /\ last.pre # <<>>
  /\ ~Falsy(last.body.name) /\ ~Falsy(last.body.email)
  /\ Len(last.body.newPassword) >= 6
  /\ last.body.oldPassword = last.body.newPassword
  /\ Normalized(last.body.email) \notin EmailsOf(last.pre)

\* two invocations that are both creations for the same normalized email, both
\* past the existence pre-check and both answered
RacedCreates(p, q) ==
  /\ p # q
  /\ procs[p].op = "create" /\ procs[q].op = "create"
  /\ procs[p].pc = "done" /\ procs[q].pc = "done"
  /\ procs[p].passed /\ procs[q].passed
  /\ Normalized(procs[p].body.email) = Normalized(procs[q].body.email)

\* C4: under every interleaving the store holds at most one record per
\* normalized email; of two creations for the same email that both passed the
\* pre-check at most one succeeds, and one that does not succeed is answered
\* 400 'User with this email already exists'.
C4_UniqueEmailUnderRace ==
  /\ \A i, j \in DOMAIN users :
       Normalized(users[i].email) = Normalized(users[j].email) => i = j
  /\ \A p, q \in Procs :
       RacedCreates(p, q) =>
         /\ ~(procs[p].resp.success /\ procs[q].resp.success)
         /\ ~procs[p].resp.success => procs[p].resp = Conflict

C4_Witness ==
  \E p, q \in Procs :
    /\ RacedCreates(p, q)
    /\ procs[p].body.email # procs[q].body.email
    /\ procs[p].resp.success /\ procs[q].resp = Conflict

\* the caller of the change request resolves to a record of the store
CallerExists == IsChange /\ last.identity \in DOMAIN last.pre

CallerBefore == last.pre[last.identity]
CallerAfter  == users[last.identity]

\* both fields present and newPassword long enough
ValidChange(body) ==
  /\ ~Falsy(body.oldPassword) /\ ~Falsy(body.newPassword)
  /\ Len(body.newPassword) >= 6

\* C5: a change request of an existing, active caller with the stored password
\* as oldPassword and a newPassword of length >= 6 that differs from it
\* succeeds, and the stored password then verifies against newPassword and no
\* longer against the prior password.
C5_ChangeReplacesPassword ==
  (CallerExists /\ CallerBefore.isActive
     /\ ComparePassword(CallerBefore, last.body.oldPassword)
     /\ ~Falsy(last.body.newPassword) /\ Len(last.body.newPassword) >= 6
     /\ ~ComparePassword(CallerBefore, last.body.newPassword))
  => (/\ last.resp = Success200
      /\ ComparePassword(CallerAfter, last.body.newPassword)
      /\ ~ComparePassword(CallerAfter, last.body.oldPassword)
      /\ CallerAfter.password # CallerBefore.password)

C5_Witness ==
  /\ CallerExists /\ last.resp.success
  /\ ComparePassword(CallerBefore, last.body.oldPassword)
  /\ ComparePassword(CallerAfter, last.body.newPassword)
  /\ Len(users) = 2

SamePasswordError == Failure(400, MsgSamePassword)

\* C6 as stated: every change request whose newPassword is the stored password
\* is answered with SamePasswordError and changes nothing.
C6_AsStated ==
  (CallerExists /\ ComparePassword(CallerBefore, last.body.newPassword))
  => (users = last.pre /\ last.resp = SamePasswordError)

\* C6 amended: a change request whose newPassword is the stored password leaves
\* the record unchanged; the answer is SamePasswordError (400) when the request
\* reaches that check, i.e. the caller's record is active, newPassword has
\* length >= 6 and oldPassword matches the stored password too.
C6_SamePasswordRejected ==
  (CallerExists /\ ComparePassword(CallerBefore, last.body.newPassword))
  => (/\ users = last.pre
      /\ (CallerBefore.isActive /\ Len(last.body.newPassword) >= 6
            /\ ComparePassword(CallerBefore, last.body.oldPassword))
          => last.resp = SamePasswordError)

C6_Witness ==
  /\ CallerExists /\ ComparePassword(CallerBefore, last.body.newPassword)
  /\ last.resp = SamePasswordError

\* C7 as stated: every change request against a deactivated account is
\* answered 401 and changes nothing.
C7_AsStated ==
  (CallerExists /\ ~CallerBefore.isActive)
  => (users = last.pre /\ last.resp.status = 401)

\* C7 amended: a change request against a deactivated account leaves the
\* record unchanged; the answer is Unauthorized (401) when the request has both
\* fields present and a newPassword of length >= 6.
C7_DeactivatedRejected ==
  (CallerExists /\ ~CallerBefore.isActive)
  => (/\ users = last.pre
      /\ ValidChange(last.body) => last.resp = Failure(401, MsgDeactivated))

C7_Witness ==
  /\ CallerExists /\ ~CallerBefore.isActive
  /\ ComparePassword(CallerBefore, last.body.oldPassword)
  /\ last.resp.status = 401

\* the call repeats the successful password change that came right before it
RepeatsChange ==
  /\ IsChange /\ prev.op = "change"
  /\ prev.identity = last.identity /\ prev.body = last.body

\* C8: the same change request issued again right after it succeeded fails
\* with 400 'Current password is incorrect' and leaves the record unchanged.
C8_ReplayRejected ==
  RepeatsChange => (last.resp = Failure(400, MsgIncorrect) /\ users = last.pre)

C8_Witness == RepeatsChange /\ ~last.resp.success

\* record b is record a with at most the password replaced
SameButPassword(a, b) == [a EXCEPT !.password = b.password] = b

SubmittedValid ==
  LET f == trace.submit.formData IN
    /\ f.oldPassword # <<>> /\ f.newPassword # <<>>
    /\ Len(f.newPassword) >= 6
    /\ f.newPassword # f.oldPassword

\* C10: handleSubmit issues a request (register in registration mode, PUT in
\* change mode) only for form values that pass all field rules, and in
\* registration mode only when oldPassword is the staged password; a
\* registration submit with valid fields and another oldPassword ends with the
\* field error on oldPassword and no request.
C10_SubmitGate ==
  /\ env.pending \in {"none", trace.submit.sent}
  /\ trace.submit.sent # "none" => SubmittedValid
  /\ trace.submit.sent = "register" =>
       (trace.submit.registration
        /\ trace.submit.formData.oldPassword = trace.submit.staged)
  /\ trace.submit.sent = "put" => ~trace.submit.registration
  /\ (trace.event = "submit" /\ trace.submit.registration /\ SubmittedValid
        /\ trace.submit.formData.oldPassword # trace.submit.staged)
      => (/\ trace.submit.sent = "none" /\ env.pending = "none"
          /\ page.fieldErrors.oldPassword = MsgDefaultIncorrect
          /\ ~page.loading)

C10_Witness ==
  /\ trace.event = "submit" /\ env.pending = "register"
  /\ page.loading
  /\ trace.submit.formData.oldPassword = Staged.password

\* the step is a registration submit that sent nothing, or a rejected call
FailedOrBlocked ==
  \/ trace'.event = "rejected"
  \/ trace'.event = "submit" /\ trace'.submit.sent = "none"

\* what C11 says of a single step of the page
C11_Step ==
  /\ (page.isRegistrationFlow
       /\ (env'.sessionStorage # env.sessionStorage \/ (page'.success /\ ~page.success)))
      => (/\ env.pending = "register" /\ trace'.event = "registered"
          /\ env'.sessionStorage = NoStaged /\ page'.success
          /\ "created" \in env'.timers)
  /\ (page.isRegistrationFlow /\ FailedOrBlocked)
      => (/\ env'.sessionStorage = env.sessionStorage
          /\ env'.timers = env.timers /\ env'.route = env.route)
  /\ (~page.isRegistrationFlow /\ trace'.event = "changed")
      => (page'.success /\ page'.formData = EmptyForm /\ "changed" \in env'.timers)
  /\ (~page.isRegistrationFlow /\ trace'.event = "rejected")
      => (/\ ~page'.success /\ page'.formData = page.formData
          /\ env'.timers = env.timers /\ env'.route = env.route
          /\ env'.isAuthenticated = env.isAuthenticated)

\* C11: in registration mode only the continuation of a resolved register
\* call removes the staged data and sets success, and it schedules the
\* redirect, which then happens; a blocked or failed registration submit
\* removes nothing and schedules nothing.  In change mode a successful
\* response sets success, clears the form and leads to logout and the login
\* view; a failed response does none of it.
C11_SuccessAndStagedData ==
  /\ [][C11_Step]_vars
  /\ (page.isRegistrationFlow /\ trace.event = "registered") ~> (env.route = "login")
  /\ (~page.isRegistrationFlow /\ trace.event = "changed")
       ~> (env.route = "login" /\ ~env.isAuthenticated)

C11_Witness ==
  /\ page.isRegistrationFlow /\ trace.event = "registered"
  /\ env.sessionStorage = NoStaged /\ page.success
  /\ env.timers = {"created"} /\ env.route = "change-password"

\* invocation p is a password change that was answered with success
ChangedWithSuccess(p) ==
  procs[p].op = "change" /\ procs[p].pc = "done" /\ procs[p].resp.success

\* C12: under every interleaving of findById, comparePassword and save, a
\* change call that returns success presented the password that was stored in
\* the record right before its own write.
C12_SuccessOnStoredPassword ==
  \A p \in Procs :
    ChangedWithSuccess(p) => procs[p].replaced = Hash(procs[p].body.oldPassword)

====
